---- MODULE Spec2Model ----
(***************************************************************************)
(* A model of tesseract: black-bar measurement of a frame (detector.py),   *)
(* cut detection over a frame stream (analyzer.py), segment planning and   *)
(* crop geometry (utils.py) and the command line run (cli.py).             *)
(*                                                                         *)
(* A grayscale frame is a sequence of rows, each a sequence of pixel       *)
(* intensities: gray[row + 1][col + 1] is numpy's gray[row, col].  Frames   *)
(* are grayscale already (cv2's colour conversion is not modelled), a mean *)
(* is kept exact as the pair of a sum and a count, and a timestamp         *)
(* frame_number / fps as the pair of the two.  Bar sizes are non-negative  *)
(* and sample_rate and fps are positive.                                   *)
(***************************************************************************)
EXTENDS Integers, Sequences, FiniteSets, TLC

VARIABLES
    measure,        \* one call of BlackBarDetector.get_frame_bar_state
    diff,           \* one call of BlackBarDetector.states_significantly_different
    crop,           \* one crop decision of _split_with_ffmpeg_frame_accurate
    plan,           \* one segment planning of split_video_by_cuts
    formatting,     \* one call of format_timestamp
    \* one run of cli.main
    cap,            \* the video file: its frames (indices into FrameLib) and its fps
    args,           \* sample_rate, and the detector main builds from the arguments
    pc,             \* where the run is
    analyze,        \* analyze_video's frame_number, previous_state and cuts
    split,          \* split_video_by_cuts' crop_black_bars, segments, created_files, i
    encoder_calls,  \* the encoder runs so far, with their arguments
    main            \* what main has printed, written and attempted, and its return value

calls == <<measure, diff, crop, plan, formatting>>
run == <<cap, args, pc, analyze, split, encoder_calls, main>>
vars == <<calls, run>>

\* Python's None, and the empty string a crop filter may be
None == [none |-> TRUE]
EmptyString == [empty |-> TRUE]

Abs(x) == IF x < 0 THEN -x ELSE x

(***************************************************************************)
(* models.py                                                               *)
(***************************************************************************)
BarState(left_width, right_width, top_height, bottom_height) ==
    [left_width |-> left_width, right_width |-> right_width,
     top_height |-> top_height, bottom_height |-> bottom_height]

CutEvent(timestamp, frame_number, before_state, after_state) ==
    [timestamp |-> timestamp, frame_number |-> frame_number,
     before_state |-> before_state, after_state |-> after_state]

(***************************************************************************)
(* detector.py                                                             *)
(***************************************************************************)
BlackBarDetector(black_threshold, min_bar_size, tolerance_pixels) ==
    [black_threshold |-> black_threshold, min_bar_size |-> min_bar_size,
     tolerance_pixels |-> tolerance_pixels]

\* gray.shape[0] and gray.shape[1]
shape_height(gray) == Len(gray)
shape_width(gray) == IF Len(gray) = 0 THEN 0 ELSE Len(gray[1])

RECURSIVE SumOf(_, _, _)
\* f[lo] + ... + f[hi], by halves
SumOf(f, lo, hi) ==
    IF lo > hi THEN 0
    ELSE IF lo = hi THEN f[lo]
    ELSE SumOf(f, lo, (lo + hi) \div 2) + SumOf(f, (lo + hi) \div 2 + 1, hi)

\* np.mean(gray[:, col]) and np.mean(gray[row, :]), kept exact as the pair of
\* the sum and the count of the pixels of the line.
column_mean(gray, col) ==
    [sum |-> SumOf([row \in 1..shape_height(gray) |-> gray[row][col + 1]], 1, shape_height(gray)),
     n |-> shape_height(gray)]

row_mean(gray, row) ==
    [sum |-> SumOf(gray[row + 1], 1, shape_width(gray)), n |-> shape_width(gray)]

\* mean > self.black_threshold
exceeds_threshold(mean, black_threshold) == mean.sum > black_threshold * mean.n

RECURSIVE left_scan(_, _, _, _)
\* for col in range(width): break at the first column above the threshold
left_scan(self, gray, col, left_width) ==
    IF col >= shape_width(gray) THEN left_width
    ELSE IF exceeds_threshold(column_mean(gray, col), self.black_threshold) THEN left_width
    ELSE left_scan(self, gray, col + 1, col + 1)

RECURSIVE RightScanOffByOne(_, _, _, _)
\* right_scan with the width of the bar taken one column short
RightScanOffByOne(self, gray, col, right_width) ==
    IF col <= -1 THEN right_width
    ELSE IF exceeds_threshold(column_mean(gray, col), self.black_threshold) THEN right_width
    ELSE RightScanOffByOne(self, gray, col - 1, shape_width(gray) - col - 1)

RECURSIVE right_scan(_, _, _, _)
\* for col in range(width - 1, -1, -1)
right_scan(self, gray, col, right_width) ==
    IF col <= -1 THEN right_width
    ELSE IF exceeds_threshold(column_mean(gray, col), self.black_threshold) THEN right_width
    ELSE right_scan(self, gray, col - 1, shape_width(gray) - col)

RECURSIVE top_scan(_, _, _, _)
\* for row in range(height)
top_scan(self, gray, row, top_height) ==
    IF row >= shape_height(gray) THEN top_height
    ELSE IF exceeds_threshold(row_mean(gray, row), self.black_threshold) THEN top_height
    ELSE top_scan(self, gray, row + 1, row + 1)

RECURSIVE bottom_scan(_, _, _, _)
\* for row in range(height - 1, -1, -1)
bottom_scan(self, gray, row, bottom_height) ==
    IF row <= -1 THEN bottom_height
    ELSE IF exceeds_threshold(row_mean(gray, row), self.black_threshold) THEN bottom_height
    ELSE bottom_scan(self, gray, row - 1, shape_height(gray) - row)

\* min_size_filter dropping a bar of exactly min_bar_size
MinSizeFilterStrict(self, size) == IF size > self.min_bar_size THEN size ELSE 0
\* size if size >= self.min_bar_size else 0
min_size_filter(self, size) == IF size >= self.min_bar_size THEN size ELSE 0

detect_vertical_bars(self, gray) ==
    <<min_size_filter(self, left_scan(self, gray, 0, 0)),
      min_size_filter(self, right_scan(self, gray, shape_width(gray) - 1, 0))>>

detect_horizontal_bars(self, gray) ==
    <<min_size_filter(self, top_scan(self, gray, 0, 0)),
      min_size_filter(self, bottom_scan(self, gray, shape_height(gray) - 1, 0))>>

get_frame_bar_state(self, gray) ==
    BarState(detect_vertical_bars(self, gray)[1], detect_vertical_bars(self, gray)[2],
             detect_horizontal_bars(self, gray)[1], detect_horizontal_bars(self, gray)[2])

\* states_significantly_different without abs()
SignificantNoAbs(self, state1, state2) ==
    \/ state1.left_width - state2.left_width > self.tolerance_pixels
    \/ state1.right_width - state2.right_width > self.tolerance_pixels
    \/ state1.top_height - state2.top_height > self.tolerance_pixels
    \/ state1.bottom_height - state2.bottom_height > self.tolerance_pixels
\* states_significantly_different with >= for >
SignificantFromEqual(self, state1, state2) ==
    \/ Abs(state1.left_width - state2.left_width) >= self.tolerance_pixels
    \/ Abs(state1.right_width - state2.right_width) >= self.tolerance_pixels
    \/ Abs(state1.top_height - state2.top_height) >= self.tolerance_pixels
    \/ Abs(state1.bottom_height - state2.bottom_height) >= self.tolerance_pixels
\* abs(...) > self.tolerance_pixels or ... for the four bar sizes
states_significantly_different(self, state1, state2) ==
    \/ Abs(state1.left_width - state2.left_width) > self.tolerance_pixels
    \/ Abs(state1.right_width - state2.right_width) > self.tolerance_pixels
    \/ Abs(state1.top_height - state2.top_height) > self.tolerance_pixels
    \/ Abs(state1.bottom_height - state2.bottom_height) > self.tolerance_pixels

(***************************************************************************)
(* utils.py: segment planning and crop geometry                            *)
(***************************************************************************)
\* f"{n:02d}": at least two digits
two_digits(n) == (IF n < 10 THEN "0" ELSE "") \o ToString(n)

\* The three decimals of f"{secs:06.3f}"
three_digits(n) == (IF n < 10 THEN "00" ELSE IF n < 100 THEN "0" ELSE "") \o ToString(n)

\* f"{secs:06.3f}" of a number of seconds given in ten-thousandths: the nearest
\* number of thousandths, as two digits or more, a point and three digits.
\* A value half way between two thousandths goes where the binary value of the
\* float lies, which up tells.
fixed_06_3f(secs, up) ==
    LET thousandths == IF secs % 10 > 5 \/ (secs % 10 = 5 /\ up)
                       THEN secs \div 10 + 1 ELSE secs \div 10
    IN  two_digits(thousandths \div 1000) \o "." \o three_digits(thousandths % 1000)

\* A float of whole seconds and frac ten-thousandths of a second
Seconds(whole, frac) == [whole |-> whole, frac |-> frac]

\* format_timestamp; secs is in ten-thousandths
format_timestamp(seconds, up) ==
    LET hours == seconds.whole \div 3600
        minutes == (seconds.whole % 3600) \div 60
        secs == (seconds.whole % 60) * 10000 + seconds.frac
    IN  two_digits(hours) \o ":" \o two_digits(minutes) \o ":" \o fixed_06_3f(secs, up)

\* f"segment_{n:02d}"
segment_name(n) == "segment_" \o (IF n < 10 THEN "0" ELSE "") \o ToString(n)

\* A planned segment: (start_frame, end_frame, segment_name, bar_state)
Segment(start_frame, end_frame, name, bar_state) ==
    [start_frame |-> start_frame, end_frame |-> end_frame,
     name |-> name, bar_state |-> bar_state]

\* first_segment with the first cut's after_state
FirstSegmentAfterState(cuts) == Segment(0, cuts[1].frame_number, "segment_01", cuts[1].after_state)
\* segments.append((0, cuts[0].frame_number, "segment_01", cuts[0].before_state))
first_segment(cuts) == Segment(0, cuts[1].frame_number, "segment_01", cuts[1].before_state)

\* between_segment ending one frame before the next cut
BetweenSegmentShort(cuts, i) ==
    Segment(cuts[i + 1].frame_number, cuts[i + 2].frame_number - 1,
            segment_name(i + 2), cuts[i + 1].after_state)
\* the body of "for i in range(len(cuts) - 1)": cuts[i] is cuts[i + 1] here
between_segment(cuts, i) ==
    Segment(cuts[i + 1].frame_number, cuts[i + 2].frame_number,
            segment_name(i + 2), cuts[i + 1].after_state)

RECURSIVE between_loop(_, _, _)
\* for i in range(len(cuts) - 1): segments.append(...)
between_loop(cuts, i, segments) ==
    IF i >= Len(cuts) - 1 THEN segments
    ELSE between_loop(cuts, i + 1, Append(segments, between_segment(cuts, i)))

\* last_segment with <= for <
LastSegmentAlsoAtEnd(cuts, total_frames, segments) ==
    IF cuts[Len(cuts)].frame_number <= total_frames
    THEN Append(segments, Segment(cuts[Len(cuts)].frame_number, total_frames,
                                  segment_name(Len(cuts) + 1), cuts[Len(cuts)].after_state))
    ELSE segments
\* if last_cut_frame < total_frames: segments.append(...)
last_segment(cuts, total_frames, segments) ==
    IF cuts[Len(cuts)].frame_number < total_frames
    THEN Append(segments, Segment(cuts[Len(cuts)].frame_number, total_frames,
                                  segment_name(Len(cuts) + 1), cuts[Len(cuts)].after_state))
    ELSE segments

\* whole_video with a reference state
WholeVideoWithBars(total_frames) == <<Segment(0, total_frames, "segment_01", BarState(10, 10, 0, 0))>>
\* No cuts found, copy entire video without cropping
whole_video(total_frames) == <<Segment(0, total_frames, "segment_01", None)>>

\* split_video_by_cuts, "Calculate segment boundaries with associated bar states"
plan_segments(cuts, total_frames) ==
    IF Len(cuts) > 0
    THEN last_segment(cuts, total_frames, between_loop(cuts, 0, <<first_segment(cuts)>>))
    ELSE whole_video(total_frames)

\* f"crop={crop_width}:{crop_height}:{left_width}:{top_height}": ffmpeg's crop
\* filter takes out_w:out_h:x:y
CropFilter(out_w, out_h, x, y) == [out_w |-> out_w, out_h |-> out_h, x |-> x, y |-> y]

\* calculate_crop_filter with > 64 for >= 64
CalculateCropFilterAbove64(bar_state, width, height) ==
    LET crop_width == width - bar_state.left_width - bar_state.right_width
        crop_height == height - bar_state.top_height - bar_state.bottom_height
        has_bars == \/ bar_state.left_width > 0 \/ bar_state.right_width > 0
                    \/ bar_state.top_height > 0 \/ bar_state.bottom_height > 0
    IN  IF has_bars /\ crop_width > 0 /\ crop_height > 0 /\ crop_width > 64 /\ crop_height > 64
        THEN CropFilter(crop_width, crop_height, bar_state.left_width, bar_state.top_height)
        ELSE EmptyString
\* calculate_crop_filter without the conditions on the size of the rectangle
CalculateCropFilterUnguarded(bar_state, width, height) ==
    LET crop_width == width - bar_state.left_width - bar_state.right_width
        crop_height == height - bar_state.top_height - bar_state.bottom_height
        has_bars == \/ bar_state.left_width > 0 \/ bar_state.right_width > 0
                    \/ bar_state.top_height > 0 \/ bar_state.bottom_height > 0
    IN  IF has_bars
        THEN CropFilter(crop_width, crop_height, bar_state.left_width, bar_state.top_height)
        ELSE EmptyString
\* _calculate_crop_filter
calculate_crop_filter(bar_state, width, height) ==
    LET crop_width == width - bar_state.left_width - bar_state.right_width
        crop_height == height - bar_state.top_height - bar_state.bottom_height
        has_bars == \/ bar_state.left_width > 0 \/ bar_state.right_width > 0
                    \/ bar_state.top_height > 0 \/ bar_state.bottom_height > 0
    IN  IF has_bars /\ crop_width > 0 /\ crop_height > 0 /\ crop_width >= 64 /\ crop_height >= 64
        THEN CropFilter(crop_width, crop_height, bar_state.left_width, bar_state.top_height)
        ELSE EmptyString

\* _split_with_ffmpeg_frame_accurate, "Add cropping filter if black bars are
\* detected": the argument of -vf, None when the command gets no -vf
vf_argument(bar_state, width, height) ==
    IF bar_state # None /\ width > 0 /\ height > 0
    THEN IF calculate_crop_filter(bar_state, width, height) # EmptyString
         THEN calculate_crop_filter(bar_state, width, height)
         ELSE None
    ELSE None

(***************************************************************************)
(* The measurement of one frame: every grayscale frame of at most          *)
(* MaxWidth by MaxHeight pixels over two intensities, every detector       *)
(* setting of MeasureDetectors.                                            *)
(***************************************************************************)
MaxWidth == 3
MaxHeight == 2
Intensities == {0, 3}
MeasureDetectors ==
    {BlackBarDetector(t, m, 5) : t \in {1, 2}, m \in 0..3}

SmallFrames ==
    UNION {[1..h -> [1..w -> Intensities]] : h \in 1..MaxHeight, w \in 1..MaxWidth}

Idle == [called |-> FALSE, idle |-> TRUE]

\* No run of main: the specifications of single calls leave these alone.
NoRun ==
    /\ cap = Idle /\ args = Idle /\ pc = "idle" /\ analyze = Idle /\ split = Idle
    /\ encoder_calls = <<>> /\ main = Idle

MeasureInit ==
    /\ measure \in {[called |-> FALSE, self |-> d, frame |-> g, result |-> None] :
                        d \in MeasureDetectors, g \in SmallFrames}
    /\ diff = Idle /\ crop = Idle /\ plan = Idle /\ formatting = Idle /\ NoRun

MeasureFrame ==
    /\ ~measure.called
    /\ measure' = [measure EXCEPT !.called = TRUE,
                                  !.result = get_frame_bar_state(measure.self, measure.frame)]
    /\ UNCHANGED <<diff, crop, plan, formatting, run>>

SpecMeasure == MeasureInit /\ [][MeasureFrame]_vars

\* A line is black when its mean luminance is at most the threshold.
LineIsBlack(mean, black_threshold) == mean.sum <= black_threshold * mean.n

\* The length of the longest run of TRUE at the start of a sequence of booleans.
LongestPrefix(black) ==
    CHOOSE k \in 0..Len(black) :
        /\ \A i \in 1..k : black[i]
        /\ k = Len(black) \/ ~black[k + 1]

Reversed(s) == [i \in 1..Len(s) |-> s[Len(s) + 1 - i]]

ColumnsBlack(self, gray) ==
    [c \in 1..shape_width(gray) |-> LineIsBlack(column_mean(gray, c - 1), self.black_threshold)]
RowsBlack(self, gray) ==
    [r \in 1..shape_height(gray) |-> LineIsBlack(row_mean(gray, r - 1), self.black_threshold)]

Reported(self, p) == IF p < self.min_bar_size THEN 0 ELSE p

\* C8: each measured bar size is the length p of the run of black lines that
\* starts at its edge and stops at the first non-black line, reported as p
\* when p >= min_bar_size and as 0 when p < min_bar_size.
C8_BarIsFilteredBlackRun ==
    measure.called =>
        LET d == measure.self
            g == measure.frame
        IN  /\ measure.result.left_width = Reported(d, LongestPrefix(ColumnsBlack(d, g)))
            /\ measure.result.right_width = Reported(d, LongestPrefix(Reversed(ColumnsBlack(d, g))))
            /\ measure.result.top_height = Reported(d, LongestPrefix(RowsBlack(d, g)))
            /\ measure.result.bottom_height = Reported(d, LongestPrefix(Reversed(RowsBlack(d, g))))

\* A measured frame whose leftmost k < min_bar_size columns (k >= 1) are black,
\* whose column k is not, and whose left width came out 0.
C8_Witness ==
    /\ measure.called
    /\ \E k \in 1..(shape_width(measure.frame) - 1) :
          /\ k < measure.self.min_bar_size
          /\ \A c \in 1..k : ColumnsBlack(measure.self, measure.frame)[c]
          /\ ~ColumnsBlack(measure.self, measure.frame)[k + 1]
    /\ measure.result.left_width = 0

FullyBlack(self, gray) ==
    /\ \A c \in 1..shape_width(gray) : ColumnsBlack(self, gray)[c]
    /\ \A r \in 1..shape_height(gray) : RowsBlack(self, gray)[r]

FirstLinesBright(self, gray) ==
    /\ ~ColumnsBlack(self, gray)[1] /\ ~ColumnsBlack(self, gray)[shape_width(gray)]
    /\ ~RowsBlack(self, gray)[1] /\ ~RowsBlack(self, gray)[shape_height(gray)]

\* C9 as stated: a fully black W x H frame measures left = right = W and
\* top = bottom = H for every W, H and min_bar_size, and a frame whose first
\* line in every scan direction is above the threshold measures (0,0,0,0).
C9_Original ==
    measure.called =>
        /\ FullyBlack(measure.self, measure.frame) =>
              measure.result = BarState(shape_width(measure.frame), shape_width(measure.frame),
                                        shape_height(measure.frame), shape_height(measure.frame))
        /\ FirstLinesBright(measure.self, measure.frame) =>
              measure.result = BarState(0, 0, 0, 0)

\* C9 amended: a fully black W x H frame measures left = right = W when
\* W >= min_bar_size and 0 otherwise, top = bottom = H when H >= min_bar_size
\* and 0 otherwise, with no overlap correction; a frame whose first line in
\* every scan direction is above the threshold measures (0,0,0,0).
C9_FullyBlackFrame ==
    measure.called =>
        LET w == shape_width(measure.frame)
            h == shape_height(measure.frame)
            m == measure.self.min_bar_size
        IN  /\ FullyBlack(measure.self, measure.frame) =>
                  measure.result = BarState(IF w >= m THEN w ELSE 0, IF w >= m THEN w ELSE 0,
                                            IF h >= m THEN h ELSE 0, IF h >= m THEN h ELSE 0)
            /\ FirstLinesBright(measure.self, measure.frame) =>
                  measure.result = BarState(0, 0, 0, 0)

\* A measured fully black frame at least two pixels wide whose left and right
\* bars both span the whole width, so that they overlap.
C9_Witness ==
    /\ measure.called
    /\ FullyBlack(measure.self, measure.frame)
    /\ shape_width(measure.frame) >= 2
    /\ measure.self.min_bar_size >= 2
    /\ measure.result.left_width = shape_width(measure.frame)
    /\ measure.result.right_width = shape_width(measure.frame)
    /\ measure.result.top_height = shape_height(measure.frame)

(***************************************************************************)
(* The comparison of two bar states: every pair of states over DiffSizes,  *)
(* every tolerance of DiffTolerances.                                      *)
(***************************************************************************)
DiffSizes == {0, 10, 16}
DiffTolerances == {-1, 0, 5, 6}
DiffStates == {BarState(l, r, t, b) : l \in DiffSizes, r \in DiffSizes, t \in DiffSizes, b \in DiffSizes}

DiffInit ==
    /\ diff \in {[called |-> FALSE, self |-> BlackBarDetector(10, 10, tol),
                   state1 |-> a, state2 |-> b, result |-> None, swapped |-> None] :
                     tol \in DiffTolerances, a \in DiffStates, b \in DiffStates}
    /\ measure = Idle /\ crop = Idle /\ plan = Idle /\ formatting = Idle /\ NoRun

\* The detector is asked about (state1, state2) and about (state2, state1).
CompareStates ==
    /\ ~diff.called
    /\ diff' = [diff EXCEPT !.called = TRUE,
                            !.result = states_significantly_different(diff.self, diff.state1, diff.state2),
                            !.swapped = states_significantly_different(diff.self, diff.state2, diff.state1)]
    /\ UNCHANGED <<measure, crop, plan, formatting, run>>

SpecDiff == DiffInit /\ [][CompareStates]_vars

\* C10: states_significantly_different gives the same answer when its two
\* states are swapped.
C10_Symmetric == diff.called => diff.result = diff.swapped

\* A compared pair that differs significantly in one direction of subtraction:
\* state1's left bar is wider than state2's by more than the tolerance.
C10_Witness ==
    /\ diff.called
    /\ diff.state1.left_width - diff.state2.left_width > diff.self.tolerance_pixels
    /\ diff.self.tolerance_pixels >= 0
    /\ diff.state1.right_width = diff.state2.right_width
    /\ diff.state1.top_height = diff.state2.top_height
    /\ diff.state1.bottom_height = diff.state2.bottom_height
    /\ diff.result = TRUE /\ diff.swapped = TRUE

(***************************************************************************)
(* The crop decision for one segment: every reference state over CropBars  *)
(* or none, every frame size over CropDims.                                *)
(***************************************************************************)
CropBars == {0, 18, 19, 50, 100}
CropDims == {0, 64, 100}
CropStates == {BarState(l, r, t, b) : l \in CropBars, r \in CropBars, t \in CropBars, b \in CropBars}

CropInit ==
    /\ crop \in {[called |-> FALSE, bar_state |-> bs, width |-> w, height |-> h, result |-> "pending"] :
                    bs \in CropStates \cup {None}, w \in CropDims, h \in CropDims}
    /\ measure = Idle /\ diff = Idle /\ plan = Idle /\ formatting = Idle /\ NoRun

CropDecision ==
    /\ ~crop.called
    /\ crop' = [crop EXCEPT !.called = TRUE,
                            !.result = vf_argument(crop.bar_state, crop.width, crop.height)]
    /\ UNCHANGED <<measure, diff, plan, formatting, run>>

SpecCrop == CropInit /\ [][CropDecision]_vars

MinCropSize == 64

\* C6: no crop when the reference state is absent or all zero, or when
\* width-left-right or height-top-bottom is below 64; in every other case the
\* rectangle x=left, y=top, width=width-left-right, height=height-top-bottom,
\* so that a returned rectangle is at least 64 by 64.
C6_CropRule ==
    crop.called =>
        LET bs == crop.bar_state
            no_crop ==
                \/ bs = None
                \/ bs = BarState(0, 0, 0, 0)
                \/ crop.width - bs.left_width - bs.right_width < MinCropSize
                \/ crop.height - bs.top_height - bs.bottom_height < MinCropSize
        IN  /\ no_crop => crop.result = None
            /\ ~no_crop =>
                  /\ crop.result # None
                  /\ crop.result.x = bs.left_width
                  /\ crop.result.y = bs.top_height
                  /\ crop.result.out_w = crop.width - bs.left_width - bs.right_width
                  /\ crop.result.out_h = crop.height - bs.top_height - bs.bottom_height
            /\ crop.result # None => crop.result.out_w >= MinCropSize /\ crop.result.out_h >= MinCropSize

\* A crop decision that returned a rectangle exactly 64 pixels wide.
C6_Witness ==
    /\ crop.called
    /\ crop.result # None
    /\ crop.result.out_w = MinCropSize
    /\ crop.result.x > 0

\* C16: a returned crop rectangle is not empty and lies inside the frame of
\* width by height pixels: x >= 0, y >= 0, x + out_w <= width and
\* y + out_h <= height; a reference state whose side bars together exceed the
\* width, or whose top and bottom bars together exceed the height, gets no
\* rectangle.
C16_CropInsideFrame ==
    crop.called =>
        /\ crop.result # None =>
              /\ crop.result.x >= 0
              /\ crop.result.y >= 0
              /\ crop.result.out_w > 0
              /\ crop.result.out_h > 0
              /\ crop.result.x + crop.result.out_w <= crop.width
              /\ crop.result.y + crop.result.out_h <= crop.height
        /\ (/\ crop.bar_state # None
            /\ \/ crop.bar_state.left_width + crop.bar_state.right_width > crop.width
               \/ crop.bar_state.top_height + crop.bar_state.bottom_height > crop.height) =>
              crop.result = None

\* A crop decision for a frame of 100 by 100 pixels with bars of 18 pixels on
\* every side, which returned the rectangle that ends 18 pixels before the
\* right and the bottom edge.
C16_Witness ==
    /\ crop.called
    /\ crop.width = 100 /\ crop.height = 100
    /\ crop.bar_state = BarState(18, 18, 18, 18)
    /\ crop.result # None
    /\ crop.result.x + crop.result.out_w = 82
    /\ crop.result.y + crop.result.out_h = 82

(***************************************************************************)
(* The formatting of one timestamp: a number of seconds with four decimals. *)
(***************************************************************************)
FormatHours == {0, 1, 100}
FormatMinutes == {0, 1, 59}
FormatSeconds == {0, 1, 59}
FormatFractions == {0, 4, 5, 6, 1230, 5000, 9990, 9994, 9995, 9996}
FormatInputs == {Seconds((h * 60 + m) * 60 + s, f) :
                    h \in FormatHours, m \in FormatMinutes, s \in FormatSeconds,
                    f \in FormatFractions}

FormatInit ==
    /\ formatting \in {[called |-> FALSE, seconds |-> t, result |-> ""] : t \in FormatInputs}
    /\ measure = Idle /\ diff = Idle /\ crop = Idle /\ plan = Idle /\ NoRun

FormatTimestamp ==
    /\ ~formatting.called
    /\ \E up \in IF formatting.seconds.frac % 10 = 5 THEN BOOLEAN ELSE {FALSE} :
          formatting' = [formatting EXCEPT !.called = TRUE,
                                           !.result = format_timestamp(formatting.seconds, up)]
    /\ UNCHANGED <<measure, diff, crop, plan, run>>

SpecFormat == FormatInit /\ [][FormatTimestamp]_vars

\* The text of a number of thousandths of a second below one minute.
SecondsText(thousandths) ==
    (IF thousandths < 10000 THEN "0" ELSE "") \o ToString(thousandths \div 1000) \o "."
        \o (IF thousandths % 1000 < 10 THEN "00" ELSE IF thousandths % 1000 < 100 THEN "0" ELSE "")
        \o ToString(thousandths % 1000)

\* C12: for t >= 0 seconds the text is HH:MM:SS.mmm with HH = floor(t/3600)
\* in two digits or more, MM = floor((t mod 3600)/60) in 00..59, and SS.mmm
\* the three decimal text of t mod 60, which is one of 00.000 to 59.999; and
\* the texts of 0, 61.5, 3661.123, 59.999 and 3600 seconds are 00:00:00.000,
\* 00:01:01.500, 01:01:01.123, 00:00:59.999 and 01:00:00.000.
C12_TimestampText ==
    formatting.called =>
        LET t == formatting.seconds
            HH == t.whole \div 3600
            MM == (t.whole % 3600) \div 60
            rest == (t.whole % 60) * 10000 + t.frac
        IN  /\ MM \in 0..59
            /\ \E thousandths \in 0..59999 :
                  /\ Abs(thousandths * 10 - rest) < 10
                  /\ formatting.result =
                        (IF HH < 10 THEN "0" ELSE "") \o ToString(HH) \o ":"
                            \o (IF MM < 10 THEN "0" ELSE "") \o ToString(MM) \o ":"
                            \o SecondsText(thousandths)
            /\ t = Seconds(0, 0) => formatting.result = "00:00:00.000"
            /\ t = Seconds(61, 5000) => formatting.result = "00:01:01.500"
            /\ t = Seconds(3661, 1230) => formatting.result = "01:01:01.123"
            /\ t = Seconds(59, 9990) => formatting.result = "00:00:59.999"
            /\ t = Seconds(3600, 0) => formatting.result = "01:00:00.000"

(***************************************************************************)
(* The planning of segments: every list of at most MaxCuts cuts with frame *)
(* numbers up to MaxFrameNumber and states over PlanStates, in any order,  *)
(* every total frame count up to MaxFrameNumber.                           *)
(***************************************************************************)
MaxCuts == 2
MaxFrameNumber == 3
PlanFps == 30
PlanStates == {BarState(0, 0, 0, 0), BarState(10, 10, 0, 0)}

\* timestamp = frame_number / fps, kept exact as the pair of the two
Timestamp(frame_number, fps) == <<frame_number, fps>>

PlanCuts ==
    {CutEvent(Timestamp(f, PlanFps), f, b, a) : f \in 0..MaxFrameNumber, b \in PlanStates, a \in PlanStates}

SeqsUpTo(S, n) == UNION {[1..k -> S] : k \in 0..n}

PlanInit ==
    /\ plan \in {[called |-> FALSE, cuts |-> c, total_frames |-> n, segments |-> <<>>] :
                    c \in SeqsUpTo(PlanCuts, MaxCuts), n \in 0..MaxFrameNumber}
    /\ measure = Idle /\ diff = Idle /\ crop = Idle /\ formatting = Idle /\ NoRun

PlanSegments ==
    /\ ~plan.called
    /\ plan' = [plan EXCEPT !.called = TRUE,
                            !.segments = plan_segments(plan.cuts, plan.total_frames)]
    /\ UNCHANGED <<measure, diff, crop, formatting, run>>

SpecPlan == PlanInit /\ [][PlanSegments]_vars

\* The segments partition [0, total_frames): the first starts at 0, each starts
\* where the previous one ends, the last ends at total_frames, and every frame
\* below total_frames lies in exactly one segment and no other frame in any.
Partitions(segments, total_frames, frames) ==
    /\ Len(segments) >= 1
    /\ segments[1].start_frame = 0
    /\ \A i \in 1..(Len(segments) - 1) : segments[i + 1].start_frame = segments[i].end_frame
    /\ segments[Len(segments)].end_frame = total_frames
    /\ \A f \in frames :
          Cardinality({i \in 1..Len(segments) :
                          segments[i].start_frame <= f /\ f < segments[i].end_frame})
            = (IF f < total_frames THEN 1 ELSE 0)

\* The cuts are in frame order and none lies beyond the end of the video.
OrderedWithin(cuts, total_frames) ==
    /\ \A i \in 1..(Len(cuts) - 1) : cuts[i].frame_number <= cuts[i + 1].frame_number
    /\ \A i \in 1..Len(cuts) : cuts[i].frame_number <= total_frames

\* C1 as stated: for any cut list and any total frame count the planned
\* segments partition [0, total_frames) exactly.
C1_Original ==
    plan.called => Partitions(plan.segments, plan.total_frames, 0..MaxFrameNumber)

\* C1 amended: for any cut list in non-decreasing frame order whose frame
\* numbers are at most total_frames (the empty list included) the planned
\* segments partition [0, total_frames) exactly.
C1_Partition ==
    (plan.called /\ OrderedWithin(plan.cuts, plan.total_frames)) =>
        Partitions(plan.segments, plan.total_frames, 0..MaxFrameNumber)

\* A plan from two ordered cuts, the last one before the end of the video.
C1_Witness ==
    /\ plan.called
    /\ Len(plan.cuts) = 2
    /\ 0 < plan.cuts[1].frame_number
    /\ plan.cuts[1].frame_number < plan.cuts[2].frame_number
    /\ plan.cuts[2].frame_number < plan.total_frames
    /\ Len(plan.segments) = 3

\* C2: with one or more cuts the segments are, in order, [0, cuts[0]) with
\* cuts[0].before_state, then [cuts[i], cuts[i+1]) with cuts[i].after_state
\* for every adjacent pair, then [cuts[last], total_frames) with
\* cuts[last].after_state if and only if cuts[last] < total_frames.
C2_SegmentsFollowCuts ==
    (plan.called /\ Len(plan.cuts) >= 1) =>
        LET cuts == plan.cuts
            n == Len(cuts)
            segs == plan.segments
            final == cuts[n].frame_number < plan.total_frames
            Range(i) == <<segs[i].start_frame, segs[i].end_frame, segs[i].bar_state>>
        IN  /\ Len(segs) = n + (IF final THEN 1 ELSE 0)
            /\ Range(1) = <<0, cuts[1].frame_number, cuts[1].before_state>>
            /\ \A i \in 1..(n - 1) :
                  Range(i + 1) = <<cuts[i].frame_number, cuts[i + 1].frame_number, cuts[i].after_state>>
            /\ final => Range(n + 1) = <<cuts[n].frame_number, plan.total_frames, cuts[n].after_state>>

\* A plan from two cuts whose before and after states differ, the last cut at
\* the very end of the video: no final segment.
C2_Witness ==
    /\ plan.called
    /\ Len(plan.cuts) = 2
    /\ plan.cuts[1].before_state # plan.cuts[1].after_state
    /\ plan.cuts[2].before_state # plan.cuts[2].after_state
    /\ plan.cuts[1].after_state # plan.cuts[2].after_state
    /\ 0 < plan.cuts[1].frame_number
    /\ plan.cuts[1].frame_number < plan.cuts[2].frame_number
    /\ plan.cuts[2].frame_number = plan.total_frames
    /\ Len(plan.segments) = 2

(***************************************************************************)
(* analyzer.py and cli.py: one run of main over a video file.              *)
(*                                                                         *)
(* The frame source keeps the contract of a readable file: it reports as   *)
(* total_frames the number of frames it delivers, a positive fps, and the  *)
(* size of its frames.  The frames are synthetic FrameWidth x FrameHeight  *)
(* pictures with black margins, measured pixel by pixel by the detector    *)
(* with the command line's default black_threshold and min_bar_size.       *)
(***************************************************************************)
FrameWidth == 100
FrameHeight == 80
MaxFrames == 3
MaxSampleRate == 2
DefaultBlackThreshold == 10
DefaultMinBarSize == 10
DefaultTolerance == 5

\* A bright picture with black margins of the given sizes.
LibFrame(l, r, t, b) ==
    [row \in 1..FrameHeight |->
        [col \in 1..FrameWidth |->
            IF col <= l \/ col > FrameWidth - r \/ row <= t \/ row > FrameHeight - b
            THEN 0 ELSE 200]]

FrameLib ==
    <<LibFrame(10, 10, 0, 0), LibFrame(0, 0, 0, 0), LibFrame(15, 10, 0, 0),
      LibFrame(20, 10, 0, 0), LibFrame(0, 0, 16, 16)>>

LibDetector == BlackBarDetector(DefaultBlackThreshold, DefaultMinBarSize, DefaultTolerance)

\* detector.get_frame_bar_state(frame) for each frame of FrameLib
MeasuredLib ==
    <<get_frame_bar_state(LibDetector, FrameLib[1]), get_frame_bar_state(LibDetector, FrameLib[2]),
      get_frame_bar_state(LibDetector, FrameLib[3]), get_frame_bar_state(LibDetector, FrameLib[4]),
      get_frame_bar_state(LibDetector, FrameLib[5])>>

\* The 300 frame video: frames 0..99 with bars (10,10,0,0), frames 100..299 without.
Video300 == [n \in 1..300 |-> IF n <= 100 THEN 1 ELSE 2]

Videos == SeqsUpTo(DOMAIN FrameLib, MaxFrames) \cup {Video300}
FpsValues == {30}
Tolerances == {0, DefaultTolerance}

\* analyze_locals with a previous state of no bars from the start
AnalyzeLocalsZeroState ==
    [frame_number |-> 0, previous_state |-> BarState(0, 0, 0, 0), cuts |-> <<>>]
\* cuts = [], previous_state = None, frame_number = 0
analyze_locals == [frame_number |-> 0, previous_state |-> None, cuts |-> <<>>]

\* visited counting frames from 1
VisitedOneBased(n, rate) == (n + 1) % rate = 0
\* frame_number % sample_rate == 0
visited(n, rate) == n % rate = 0

\* cut_decision with >= for >
CutDecisionFromEqual(self, previous, current) ==
    previous # None /\ SignificantFromEqual(self, previous, current)
\* previous_state is not None and states_significantly_different(...)
cut_decision(self, previous, current) ==
    previous # None /\ states_significantly_different(self, previous, current)

\* analyze_frame with previous_state kept from the start of the segment: it is
\* assigned on the first visited frame and at a cut only
AnalyzeFrameKeepsReference(self, rate, rate_fps, locals, frame) ==
    LET n == locals.frame_number
        current_state == MeasuredLib[frame]
        cut == visited(n, rate) /\ cut_decision(self, locals.previous_state, current_state)
    IN  [frame_number |-> n + 1,
         previous_state |-> IF visited(n, rate) /\ (cut \/ locals.previous_state = None)
                            THEN current_state ELSE locals.previous_state,
         cuts |-> IF cut
                  THEN Append(locals.cuts,
                              CutEvent(Timestamp(n, rate_fps), n, locals.previous_state, current_state))
                  ELSE locals.cuts]

\* One iteration of "while True" for a frame that cap.read() delivered.
analyze_frame(self, rate, rate_fps, locals, frame) ==
    LET n == locals.frame_number
        current_state == MeasuredLib[frame]
    IN  [frame_number |-> n + 1,
         previous_state |-> IF visited(n, rate) THEN current_state ELSE locals.previous_state,
         cuts |-> IF visited(n, rate) /\ cut_decision(self, locals.previous_state, current_state)
                  THEN Append(locals.cuts,
                              CutEvent(Timestamp(n, rate_fps), n, locals.previous_state, current_state))
                  ELSE locals.cuts]

\* One encoder run.
EncoderCall(tool, output, start_time, duration, vf, returncode, stderr) ==
    [tool |-> tool, output |-> output, start_time |-> start_time, duration |-> duration,
     vf |-> vf, returncode |-> returncode, stderr |-> stderr]

\* RuntimeError(f"ffmpeg failed: {result.stderr}")
ffmpeg_failed(stderr) == "ffmpeg failed: " \o stderr

\* print(f"Error splitting video: {e}")
error_splitting(e) == "Error splitting video: " \o e

\* _split_with_ffmpeg_frame_accurate
ffmpeg_call(seg, seg_fps, bar_state, width, height, returncode, stderr) ==
    EncoderCall("ffmpeg", seg.name, Timestamp(seg.start_frame, seg_fps),
                Timestamp(seg.end_frame - seg.start_frame, seg_fps),
                vf_argument(bar_state, width, height), returncode, stderr)

\* _split_with_opencv: no cropping, no exit status
opencv_call(seg, seg_fps) ==
    EncoderCall("opencv", seg.name, Timestamp(seg.start_frame, seg_fps),
                Timestamp(seg.end_frame - seg.start_frame, seg_fps), None, 0, "")

RunInit ==
    /\ cap \in {[frames |-> v, fps |-> f] : v \in Videos, f \in FpsValues}
    /\ args \in {[sample_rate |-> n,
                  detector |-> BlackBarDetector(DefaultBlackThreshold, DefaultMinBarSize, t)] :
                    n \in 1..MaxSampleRate, t \in Tolerances}
    /\ pc = "analyze_video"
    /\ analyze = analyze_locals
    /\ split = [crop_black_bars |-> FALSE, segments |-> <<>>, created_files |-> <<>>, i |-> 0]
    /\ encoder_calls = <<>>
    /\ main = [effects |-> <<>>, exit_code |-> None]
    /\ measure = Idle /\ diff = Idle /\ crop = Idle /\ plan = Idle /\ formatting = Idle

\* OpenFails with main returning 0 after printing the error
OpenFailsReturnsZero ==
    /\ pc = "analyze_video"
    /\ pc' = "exit"
    /\ main' = [effects |-> Append(main.effects, "Error"), exit_code |-> 0]
    /\ UNCHANGED <<calls, cap, args, analyze, split, encoder_calls>>
\* analyze_video: cap.isOpened() is false; main prints the error and returns 1.
OpenFails ==
    /\ pc = "analyze_video"
    /\ pc' = "exit"
    /\ main' = [effects |-> Append(main.effects, "Error"), exit_code |-> 1]
    /\ UNCHANGED <<calls, cap, args, analyze, split, encoder_calls>>

\* analyze_video: the file opens.
OpenVideo ==
    /\ pc = "analyze_video"
    /\ pc' = "read"
    /\ analyze' = analyze_locals
    /\ UNCHANGED <<calls, cap, args, split, encoder_calls, main>>

\* analyze_video: cap.read() delivers the next frame.
ReadFrame ==
    /\ pc = "read"
    /\ analyze.frame_number < Len(cap.frames)
    /\ analyze' = analyze_frame(args.detector, args.sample_rate, cap.fps, analyze,
                                cap.frames[analyze.frame_number + 1])
    /\ UNCHANGED <<calls, cap, args, pc, split, encoder_calls, main>>

\* analyze_video returns its cuts at the end of the stream; main prints them,
\* writes the JSON file if asked to, and goes on to split if asked to.
AnalysisDone ==
    /\ pc = "read"
    /\ analyze.frame_number = Len(cap.frames)
    /\ \E output_json \in BOOLEAN, split_output \in BOOLEAN :
          /\ main' = [effects |-> main.effects \o <<"print_results">>
                                    \o (IF output_json THEN <<"save_results_json">> ELSE <<>>)
                                    \o (IF split_output THEN <<"split_video_by_cuts">> ELSE <<>>),
                      exit_code |-> IF split_output THEN None ELSE 0]
          /\ pc' = IF split_output THEN "split_video_by_cuts" ELSE "exit"
    /\ UNCHANGED <<calls, cap, args, analyze, split, encoder_calls>>

\* split_video_by_cuts: cap.isOpened() is false; main prints the error and returns 1.
SplitOpenFails ==
    /\ pc = "split_video_by_cuts"
    /\ pc' = "exit"
    /\ main' = [effects |-> Append(main.effects, error_splitting("Could not open video file")),
                exit_code |-> 1]
    /\ UNCHANGED <<calls, cap, args, analyze, split, encoder_calls>>

\* split_video_by_cuts: the file opens and the segments are planned.
SplitPlan ==
    /\ pc = "split_video_by_cuts"
    /\ \E no_crop \in BOOLEAN :
          split' = [crop_black_bars |-> ~no_crop,
                    segments |-> plan_segments(analyze.cuts, Len(cap.frames)),
                    created_files |-> <<>>, i |-> 0]
    /\ pc' = "encode"
    /\ UNCHANGED <<calls, cap, args, analyze, encoder_calls, main>>

\* What ffmpeg may leave on its standard error when it fails.
Diagnostics == {"Invalid data found when processing input", "No space left on device"}

\* EncodeSegment going on to the next segment after ffmpeg failed
EncodeSegmentContinues ==
    /\ pc = "encode"
    /\ split.i < Len(split.segments)
    /\ LET seg == split.segments[split.i + 1]
       IN  \E has_ffmpeg \in BOOLEAN, returncode \in {0, 1} :
              \E stderr \in IF returncode = 0 THEN {""} ELSE Diagnostics :
                 /\ has_ffmpeg \/ returncode = 0
                 /\ encoder_calls' = Append(encoder_calls,
                       IF has_ffmpeg
                       THEN ffmpeg_call(seg, cap.fps,
                                        IF split.crop_black_bars THEN seg.bar_state ELSE None,
                                        FrameWidth, FrameHeight, returncode, stderr)
                       ELSE opencv_call(seg, cap.fps))
                 /\ split' = [split EXCEPT !.created_files = Append(@, seg.name), !.i = @ + 1]
                 /\ pc' = "encode"
                 /\ main' = main
    /\ UNCHANGED <<calls, cap, args, analyze>>
\* split_video_by_cuts: one iteration of the loop over the segments, with ffmpeg
\* (which may exit with a non-zero status: the RuntimeError with its standard
\* error leaves the loop, main prints it and returns 1) or, when ffmpeg is not
\* there, with OpenCV.
EncodeSegment ==
    /\ pc = "encode"
    /\ split.i < Len(split.segments)
    /\ LET seg == split.segments[split.i + 1]
       IN  \E has_ffmpeg \in BOOLEAN, returncode \in {0, 1} :
              \E stderr \in IF returncode = 0 THEN {""} ELSE Diagnostics :
                 /\ has_ffmpeg \/ returncode = 0
                 /\ encoder_calls' = Append(encoder_calls,
                       IF has_ffmpeg
                       THEN ffmpeg_call(seg, cap.fps,
                                        IF split.crop_black_bars THEN seg.bar_state ELSE None,
                                        FrameWidth, FrameHeight, returncode, stderr)
                       ELSE opencv_call(seg, cap.fps))
                 /\ split' = [split EXCEPT !.created_files = Append(@, seg.name),
                                           !.i = IF returncode = 0 THEN @ + 1 ELSE @]
                 /\ pc' = IF returncode = 0 THEN "encode" ELSE "exit"
                 /\ main' = IF returncode = 0 THEN main
                            ELSE [effects |-> Append(main.effects,
                                                     error_splitting(ffmpeg_failed(stderr))),
                                  exit_code |-> 1]
    /\ UNCHANGED <<calls, cap, args, analyze>>

\* split_video_by_cuts returns the created files; main prints them and returns 0.
SplitDone ==
    /\ pc = "encode"
    /\ split.i = Len(split.segments)
    /\ pc' = "exit"
    /\ main' = [effects |-> Append(main.effects, "Created"), exit_code |-> 0]
    /\ UNCHANGED <<calls, cap, args, analyze, split, encoder_calls>>

Next ==
    \/ OpenFails \/ OpenVideo \/ ReadFrame \/ AnalysisDone
    \/ SplitOpenFails \/ SplitPlan \/ EncodeSegment \/ SplitDone

Spec == RunInit /\ [][Next]_vars

\* Two bar states are significantly different when one of the four bar sizes
\* differs by more than the tolerance.
BarFields == {"left_width", "right_width", "top_height", "bottom_height"}
SignificantlyDifferent(a, b, tolerance) == \E f \in BarFields : Abs(a[f] - b[f]) > tolerance

\* The bar state the frame with 0-based index n measures.
StateOfFrame(n) == MeasuredLib[cap.frames[n + 1]]

\* analyze_video has read every frame.
AllFramesRead == pc \notin {"idle", "analyze_video"} /\ analyze.frame_number = Len(cap.frames)

\* split_video_by_cuts has planned its segments.
Planned == pc \in {"encode", "exit"} /\ Len(split.segments) > 0

\* What the planner decided of a segment: its range and its reference state.
RangeOf(seg) == <<seg.start_frame, seg.end_frame, seg.bar_state>>

\* C3: with an empty cut list the plan is the one segment [0, total_frames),
\* named with ordinal 1, without a reference state, and every encoder run for
\* it gets no crop rectangle.
C3_NoCutsOneSegmentNoCrop ==
    (Planned /\ analyze.cuts = <<>>) =>
        /\ split.segments =
              <<[start_frame |-> 0, end_frame |-> Len(cap.frames),
                 name |-> "segment_01", bar_state |-> None]>>
        /\ \A c \in 1..Len(encoder_calls) :
              /\ encoder_calls[c].vf = None
              /\ encoder_calls[c].output = "segment_01"
              /\ encoder_calls[c].start_time = <<0, cap.fps>>
              /\ encoder_calls[c].duration = <<Len(cap.frames), cap.fps>>

\* A finished run over a video of frames with bars throughout: no cut, and the
\* whole video went to ffmpeg with cropping enabled.
C3_Witness ==
    /\ pc = "exit" /\ main.exit_code = 0
    /\ Len(cap.frames) = 3
    /\ \A n \in 0..2 : StateOfFrame(n) = BarState(10, 10, 0, 0)
    /\ analyze.cuts = <<>>
    /\ split.crop_black_bars
    /\ Len(encoder_calls) = 1
    /\ encoder_calls[1].tool = "ffmpeg"

\* C4: a step of analyze_video over a visited frame appends a CutEvent if and
\* only if a previous state exists and differs from the frame's state by more
\* than tolerance_pixels in at least one field; the event carries the frame's
\* index, the previous state and the frame's state.  Hence the two states of
\* every emitted CutEvent are significantly different.
C4_CutIffSignificant ==
    /\ [][(pc = "read" /\ analyze'.frame_number = analyze.frame_number + 1
                /\ analyze.frame_number % args.sample_rate = 0) =>
            LET previous == analyze.previous_state
                current == StateOfFrame(analyze.frame_number)
                tolerance == args.detector.tolerance_pixels
            IN  IF previous # None /\ SignificantlyDifferent(previous, current, tolerance)
                THEN /\ Len(analyze'.cuts) = Len(analyze.cuts) + 1
                     /\ SubSeq(analyze'.cuts, 1, Len(analyze.cuts)) = analyze.cuts
                     /\ analyze'.cuts[Len(analyze'.cuts)].frame_number = analyze.frame_number
                     /\ analyze'.cuts[Len(analyze'.cuts)].before_state = previous
                     /\ analyze'.cuts[Len(analyze'.cuts)].after_state = current
                ELSE analyze'.cuts = analyze.cuts]_vars
    /\ [](pc # "idle" =>
            \A c \in 1..Len(analyze.cuts) :
                SignificantlyDifferent(analyze.cuts[c].before_state, analyze.cuts[c].after_state,
                                       args.detector.tolerance_pixels))

\* Three frames read at tolerance 5: the left bar grew by exactly 5 at frame 1,
\* which emitted nothing, and the bars went away at frame 2, which emitted a cut.
C4_Witness ==
    /\ pc = "read" /\ analyze.frame_number = 3
    /\ args.sample_rate = 1
    /\ args.detector.tolerance_pixels = 5
    /\ StateOfFrame(0) = BarState(10, 10, 0, 0)
    /\ StateOfFrame(1) = BarState(15, 10, 0, 0)
    /\ StateOfFrame(2) = BarState(0, 0, 0, 0)
    /\ Len(analyze.cuts) = 1
    /\ analyze.cuts[1].frame_number = 2
    /\ analyze.cuts[1].before_state = BarState(15, 10, 0, 0)

\* C5: frame 0 never yields a cut, and the frame numbers of the cuts are
\* strictly increasing in output order.
C5_CutsStrictlyIncreasing ==
    pc # "idle" =>
        /\ \A c \in 1..Len(analyze.cuts) : analyze.cuts[c].frame_number # 0
        /\ \A c \in 1..(Len(analyze.cuts) - 1) :
              analyze.cuts[c].frame_number < analyze.cuts[c + 1].frame_number

\* A run whose frame 0 has bars and which emitted two cuts.
C5_Witness ==
    /\ AllFramesRead
    /\ Len(cap.frames) >= 3
    /\ StateOfFrame(0) # BarState(0, 0, 0, 0)
    /\ Len(analyze.cuts) = 2

\* C7: with sample_rate 1, a video of N frames that measure A on frames
\* 0..k-1 and B on frames k..N-1, A and B significantly different, yields the
\* one cut at frame k, with timestamp k/fps, and the two segments [0,k) with
\* reference A and [k,N) with reference B; the 300 frame, 30 fps video with
\* bars (10,10,0,0) on frames 0..99 and none after, at tolerance 5, yields
\* the one cut at frame 100 with timestamp 100/30 and the segments [0,100)
\* with reference (10,10,0,0) and [100,300) with reference (0,0,0,0).
C7_EndToEnd ==
    (pc # "idle" /\ args.sample_rate = 1) =>
        /\ \A k \in 1..(Len(cap.frames) - 1) :
              LET A == StateOfFrame(0)
                  B == StateOfFrame(k)
              IN  (/\ \A n \in 0..(k - 1) : StateOfFrame(n) = A
                   /\ \A n \in k..(Len(cap.frames) - 1) : StateOfFrame(n) = B
                   /\ SignificantlyDifferent(A, B, args.detector.tolerance_pixels)) =>
                      /\ AllFramesRead =>
                            analyze.cuts = <<[timestamp |-> <<k, cap.fps>>, frame_number |-> k,
                                              before_state |-> A, after_state |-> B]>>
                      /\ Planned =>
                            /\ Len(split.segments) = 2
                            /\ RangeOf(split.segments[1]) = <<0, k, A>>
                            /\ RangeOf(split.segments[2]) = <<k, Len(cap.frames), B>>
        /\ (cap = [frames |-> Video300, fps |-> 30] /\ args.detector.tolerance_pixels = 5) =>
              /\ AllFramesRead =>
                    analyze.cuts = <<[timestamp |-> <<100, 30>>, frame_number |-> 100,
                                      before_state |-> BarState(10, 10, 0, 0),
                                      after_state |-> BarState(0, 0, 0, 0)]>>
              /\ Planned =>
                    /\ Len(split.segments) = 2
                    /\ RangeOf(split.segments[1]) = <<0, 100, BarState(10, 10, 0, 0)>>
                    /\ RangeOf(split.segments[2]) = <<100, 300, BarState(0, 0, 0, 0)>>

\* A finished run over the 300 frame video at sample_rate 1 and tolerance 5
\* that split it in two.
C7_Witness ==
    /\ pc = "exit" /\ main.exit_code = 0
    /\ cap.frames = Video300
    /\ args.sample_rate = 1
    /\ args.detector.tolerance_pixels = 5
    /\ Len(analyze.cuts) = 1
    /\ Len(split.segments) = 2
    /\ Len(encoder_calls) = 2

\* What main has done so far, as a set.
Effects == {main.effects[e] : e \in 1..Len(main.effects)}

\* The requested split ran every planned segment through an encoder that
\* reported success.
SplitSucceeded ==
    /\ Planned
    /\ Len(encoder_calls) = Len(split.segments)
    /\ \A c \in 1..Len(encoder_calls) : encoder_calls[c].returncode = 0

VisitedFrames == {n \in 0..(analyze.frame_number - 1) : n % args.sample_rate = 0}

\* The visited frame before frame n.
PrecedingVisited(n) == n - args.sample_rate

\* C13: a step over a visited frame leaves that frame's state in
\* previous_state whether it emitted a cut or not, so previous_state is always
\* the state of the last visited frame and the before_state of every cut is
\* the state of the visited frame just before the cut's frame; when no two
\* consecutive visited frames differ by more than tolerance_pixels in any
\* field, no cut is emitted, whatever the distance between the first and the
\* last of them.
C13_PreviousIsLastVisited ==
    /\ [][(pc = "read" /\ analyze'.frame_number = analyze.frame_number + 1
                /\ analyze.frame_number % args.sample_rate = 0) =>
            analyze'.previous_state = StateOfFrame(analyze.frame_number)]_vars
    /\ []((pc \notin {"idle", "analyze_video"} /\ analyze.frame_number > 0) =>
            analyze.previous_state =
                StateOfFrame(((analyze.frame_number - 1) \div args.sample_rate) * args.sample_rate))
    /\ [](pc # "idle" =>
            \A c \in 1..Len(analyze.cuts) :
                /\ PrecedingVisited(analyze.cuts[c].frame_number) \in VisitedFrames
                /\ analyze.cuts[c].before_state =
                      StateOfFrame(PrecedingVisited(analyze.cuts[c].frame_number))
                /\ analyze.cuts[c].after_state = StateOfFrame(analyze.cuts[c].frame_number))
    /\ []((pc \notin {"idle", "analyze_video"}
              /\ \A n \in VisitedFrames :
                    PrecedingVisited(n) \in VisitedFrames =>
                        ~SignificantlyDifferent(StateOfFrame(PrecedingVisited(n)), StateOfFrame(n),
                                                args.detector.tolerance_pixels)) =>
            analyze.cuts = <<>>)

\* Three frames read at sample_rate 1 and tolerance 5 whose left bar is 10,
\* then 15, then 20 wide: each step is within the tolerance, the first and the
\* last are not, and there is no cut.
C13_Witness ==
    /\ pc = "read" /\ analyze.frame_number = 3
    /\ args.sample_rate = 1
    /\ args.detector.tolerance_pixels = 5
    /\ StateOfFrame(0) = BarState(10, 10, 0, 0)
    /\ StateOfFrame(1) = BarState(15, 10, 0, 0)
    /\ StateOfFrame(2) = BarState(20, 10, 0, 0)
    /\ SignificantlyDifferent(StateOfFrame(0), StateOfFrame(2), 5)
    /\ analyze.previous_state = BarState(20, 10, 0, 0)
    /\ analyze.cuts = <<>>

\* C14: a step of analyze_video over a frame whose index is not a multiple of
\* sample_rate changes neither previous_state nor the cut list, and a step
\* over a multiple of sample_rate measures the frame; every cut's frame number
\* is a positive multiple of sample_rate; and when all the visited frames
\* measure the same state there is no cut, whatever the frames between them
\* measure.
C14_OnlySampledFrames ==
    /\ [][(pc = "read" /\ analyze'.frame_number = analyze.frame_number + 1) =>
            IF analyze.frame_number % args.sample_rate = 0
            THEN analyze'.previous_state = StateOfFrame(analyze.frame_number)
            ELSE /\ analyze'.previous_state = analyze.previous_state
                 /\ analyze'.cuts = analyze.cuts]_vars
    /\ [](pc # "idle" =>
            \A c \in 1..Len(analyze.cuts) :
                /\ analyze.cuts[c].frame_number > 0
                /\ analyze.cuts[c].frame_number % args.sample_rate = 0)
    /\ []((pc \notin {"idle", "analyze_video"}
              /\ \A n \in VisitedFrames : StateOfFrame(n) = StateOfFrame(0)) =>
            analyze.cuts = <<>>)

\* Three frames read at sample_rate 2 and tolerance 5: bars of 10 at the sides
\* on frames 0 and 2, no bars on frame 1, which was skipped, and no cut.
C14_Witness ==
    /\ pc = "read" /\ analyze.frame_number = 3
    /\ args.sample_rate = 2
    /\ args.detector.tolerance_pixels = 5
    /\ StateOfFrame(0) = BarState(10, 10, 0, 0)
    /\ StateOfFrame(1) = BarState(0, 0, 0, 0)
    /\ StateOfFrame(2) = BarState(10, 10, 0, 0)
    /\ analyze.previous_state = BarState(10, 10, 0, 0)
    /\ analyze.cuts = <<>>

\* The output files the encoder runs have completed.
FilesOnDisk == {encoder_calls[c].output : c \in {d \in 1..Len(encoder_calls) :
                                                    encoder_calls[d].returncode = 0}}

\* C15: the encoder runs are appended one at a time and never taken back, the
\* c-th run is for the c-th planned segment, and only the last run can have
\* failed; the step in which an encoder exits with a non-zero status ends the
\* run with exit code 1 and the error line that carries the encoder's standard
\* error, and leaves the files of the earlier segments where they are; at the
\* end of such a run no later segment has been given to an encoder.
C15_EncodeFailureAborts ==
    /\ [][\/ encoder_calls' = encoder_calls
          \/ /\ Len(encoder_calls') = Len(encoder_calls) + 1
             /\ SubSeq(encoder_calls', 1, Len(encoder_calls)) = encoder_calls
             /\ encoder_calls'[Len(encoder_calls')].output =
                    split.segments[Len(encoder_calls) + 1].name
             /\ FilesOnDisk \subseteq FilesOnDisk'
             /\ encoder_calls'[Len(encoder_calls')].returncode # 0 =>
                    /\ pc' = "exit"
                    /\ main'.exit_code = 1
                    /\ main'.effects = Append(main.effects,
                          "Error splitting video: ffmpeg failed: "
                              \o encoder_calls'[Len(encoder_calls')].stderr)
                    /\ FilesOnDisk' = FilesOnDisk]_vars
    /\ [](pc # "idle" =>
            /\ Len(encoder_calls) <= Len(split.segments)
            /\ \A c \in 1..Len(encoder_calls) :
                  /\ encoder_calls[c].output = split.segments[c].name
                  /\ c < Len(encoder_calls) => encoder_calls[c].returncode = 0
                  /\ encoder_calls[c].returncode # 0 =>
                        /\ pc = "exit"
                        /\ main.exit_code = 1
                        /\ "Created" \notin Effects
                        /\ FilesOnDisk = {split.segments[d].name : d \in 1..(c - 1)})

\* A run that planned three segments, encoded the first, and ended when ffmpeg
\* failed on the second.
C15_Witness ==
    /\ pc = "exit"
    /\ main.exit_code = 1
    /\ Len(split.segments) = 3
    /\ Len(encoder_calls) = 2
    /\ encoder_calls[1].returncode = 0
    /\ encoder_calls[2].returncode = 1
    /\ encoder_calls[2].stderr = "No space left on device"
    /\ FilesOnDisk = {"segment_01"}

====
